---------------------------- MODULE Spec2Model ----------------------------
(***************************************************************************)
(* Model of the market-intel-agent run orchestration and streaming layer:  *)
(*   src/app.py          the run table _runs, start_run, stream, the       *)
(*                       background executor _run_pipeline and _sse         *)
(*   src/market_intel.py _parse_json and the five agent stages              *)
(*                                                                         *)
(* Texts are sequences of one-character strings, so that strip, the fence  *)
(* stripping of _parse_json and JSON decoding/encoding are computed        *)
(* character by character, as the Python code computes them.               *)
(***************************************************************************)
EXTENDS Naturals, Sequences, FiniteSets, TLC

(***************************************************************************)
(* Characters and texts                                                    *)
(***************************************************************************)
QUOTE == "\""
BACKSLASH == "\\"
NEWLINE == "\n"
\* the fence character (U+0060); the lexer accepts no grave accent inside a string,
\* so the model writes it as the apostrophe, which occurs nowhere else in the alphabet
BACKTICK == "'"

\* the characters str.strip() removes that occur in the modelled alphabet
Whitespace == {" ", NEWLINE}

Digits == {"0", "1", "2", "3", "4", "5", "6", "7", "8", "9"}

FENCE == <<BACKTICK, BACKTICK, BACKTICK>>
JSON_TAG == <<"j", "s", "o", "n">>

\* F applied to the value of x, which is computed once
With(x, F(_)) == CHOOSE y \in {F(v) : v \in {x}} : TRUE

Drop(text, n) == SubSeq(text, n + 1, Len(text))

DropLast(text, n) == SubSeq(text, 1, Len(text) - n)

startswith(text, prefix) ==
    /\ Len(text) >= Len(prefix)
    /\ SubSeq(text, 1, Len(prefix)) = prefix

endswith(text, suffix) ==
    /\ Len(text) >= Len(suffix)
    /\ SubSeq(text, Len(text) - Len(suffix) + 1, Len(text)) = suffix

RECURSIVE lstrip(_)
lstrip(text) ==
    IF text # <<>> /\ Head(text) \in Whitespace THEN lstrip(Tail(text)) ELSE text

RECURSIVE rstrip(_)
rstrip(text) ==
    IF text # <<>> /\ text[Len(text)] \in Whitespace
    THEN rstrip(DropLast(text, 1))
    ELSE text

strip(text) == rstrip(lstrip(text))

(***************************************************************************)
(* JSON values.  Every value is a record of one shape:                     *)
(*   t  the Python type: "dict", "list", "str", "int", "bool", "NoneType"  *)
(*   s  the characters of a str, the digits of an int, "true"/"false"      *)
(*   k  the keys of a dict, in insertion order                             *)
(*   v  the elements of a list, or the values of a dict (aligned with k)   *)
(***************************************************************************)
JStr(s) == [t |-> "str", s |-> s, k |-> <<>>, v |-> <<>>]
JInt(s) == [t |-> "int", s |-> s, k |-> <<>>, v |-> <<>>]
JBool(s) == [t |-> "bool", s |-> s, k |-> <<>>, v |-> <<>>]
JNone == [t |-> "NoneType", s |-> <<>>, k |-> <<>>, v |-> <<>>]
JList(v) == [t |-> "list", s |-> <<>>, k |-> <<>>, v |-> v]
JDict(k, v) == [t |-> "dict", s |-> <<>>, k |-> k, v |-> v]

IndexOf(seq, x) ==
    IF \E i \in 1..Len(seq) : seq[i] = x
    THEN CHOOSE i \in 1..Len(seq) : seq[i] = x /\ \A j \in 1..(i - 1) : seq[j] # x
    ELSE 0

\* d[key] = val on a Python dict: a repeated key keeps its place and takes the new value
DictSet(d, key, val) ==
    LET i == IndexOf(d.k, key)
    IN  IF i = 0
        THEN JDict(Append(d.k, key), Append(d.v, val))
        ELSE JDict(d.k, [d.v EXCEPT ![i] = val])

(***************************************************************************)
(* json.loads (src/market_intel.py:71), on the modelled alphabet: objects, *)
(* arrays, strings with the escapes \" \\ \/ \n, non-negative integers and *)
(* the literals true, false, null.  A result is [ok, val, pos]: pos is the *)
(* index after the value.                                                  *)
(***************************************************************************)
DecodeError == [ok |-> FALSE, val |-> JNone, pos |-> 0]

Decoded(val, pos) == [ok |-> TRUE, val |-> val, pos |-> pos]

At(text, i) == IF i >= 1 /\ i <= Len(text) THEN text[i] ELSE "EOF"

RECURSIVE SkipWs(_, _)
SkipWs(text, i) ==
    IF At(text, i) \in Whitespace THEN SkipWs(text, i + 1) ELSE i

\* py_scanstring, strict: the text after the opening quote
RECURSIVE ScanString(_, _, _)
ScanString(text, i, acc) ==
    LET c == At(text, i)
    IN  CASE c = "EOF" -> DecodeError
          [] c = QUOTE -> Decoded(JStr(acc), i + 1)
          [] c = NEWLINE -> DecodeError
          [] c = BACKSLASH ->
                LET e == At(text, i + 1)
                IN  CASE e \in {QUOTE, BACKSLASH, "/"} ->
                            ScanString(text, i + 2, Append(acc, e))
                      [] e = "n" -> ScanString(text, i + 2, Append(acc, NEWLINE))
                      [] OTHER -> DecodeError
          [] OTHER -> ScanString(text, i + 1, Append(acc, c))

RECURSIVE ScanDigits(_, _)
ScanDigits(text, i) ==
    IF At(text, i) \in Digits THEN ScanDigits(text, i + 1) ELSE i

ScanNumber(text, i) ==
    With(IF text[i] = "0" THEN i + 1 ELSE ScanDigits(text, i), LAMBDA end :
        Decoded(JInt(SubSeq(text, i, end - 1)), end))

ScanLiteral(text, i, word, val) ==
    IF i + Len(word) - 1 <= Len(text) /\ SubSeq(text, i, i + Len(word) - 1) = word
    THEN Decoded(val, i + Len(word))
    ELSE DecodeError

RECURSIVE ScanValue(_, _)
RECURSIVE ScanArray(_, _, _)
RECURSIVE ScanObject(_, _, _)
RECURSIVE ScanObjectRest(_, _, _)

\* scan_once: the value starting at text[i]
ScanValue(text, i) ==
    LET c == At(text, i)
    IN  CASE c = QUOTE -> ScanString(text, i + 1, <<>>)
          [] c = "{" ->
                With(SkipWs(text, i + 1), LAMBDA j :
                    IF At(text, j) = "}"
                    THEN Decoded(JDict(<<>>, <<>>), j + 1)
                    ELSE ScanObject(text, j, JDict(<<>>, <<>>)))
          [] c = "[" ->
                With(SkipWs(text, i + 1), LAMBDA j :
                    IF At(text, j) = "]"
                    THEN Decoded(JList(<<>>), j + 1)
                    ELSE ScanArray(text, j, <<>>))
          [] c = "n" -> ScanLiteral(text, i, <<"n", "u", "l", "l">>, JNone)
          [] c = "t" ->
                ScanLiteral(text, i, <<"t", "r", "u", "e">>, JBool(<<"true">>))
          [] c = "f" ->
                ScanLiteral(text, i, <<"f", "a", "l", "s", "e">>, JBool(<<"false">>))
          [] c \in Digits -> ScanNumber(text, i)
          [] OTHER -> DecodeError

\* JSONArray: the elements from text[i] on, acc the elements read so far
ScanArray(text, i, acc) ==
    With(ScanValue(text, i), LAMBDA e :
        IF ~e.ok
        THEN DecodeError
        ELSE With(SkipWs(text, e.pos), LAMBDA j :
                CASE At(text, j) = "]" -> Decoded(JList(Append(acc, e.val)), j + 1)
                  [] At(text, j) = "," ->
                        ScanArray(text, SkipWs(text, j + 1), Append(acc, e.val))
                  [] OTHER -> DecodeError))

\* after a pair of a JSONObject: the closing brace, or a comma and the next pair
ScanObjectRest(text, m, d) ==
    CASE At(text, m) = "}" -> Decoded(d, m + 1)
      [] At(text, m) = "," -> ScanObject(text, SkipWs(text, m + 1), d)
      [] OTHER -> DecodeError

\* JSONObject: the pairs from text[i] on, acc the dict built so far
ScanObject(text, i, acc) ==
    IF At(text, i) # QUOTE
    THEN DecodeError
    ELSE With(ScanString(text, i + 1, <<>>), LAMBDA key :
            IF ~key.ok
            THEN DecodeError
            ELSE With(SkipWs(text, key.pos), LAMBDA j :
                    IF At(text, j) # ":"
                    THEN DecodeError
                    ELSE With(ScanValue(text, SkipWs(text, j + 1)), LAMBDA e :
                            IF ~e.ok
                            THEN DecodeError
                            ELSE ScanObjectRest(text, SkipWs(text, e.pos),
                                                DictSet(acc, key.val.s, e.val)))))

\* json.loads(text): one value, whitespace around it, nothing after it
json_loads(text) ==
    With(ScanValue(text, SkipWs(text, 1)), LAMBDA e :
        IF e.ok /\ SkipWs(text, e.pos) = Len(text) + 1 THEN e ELSE DecodeError)

(***************************************************************************)
(* json.dumps (src/app.py:90), default separators ", " and ": "            *)
(***************************************************************************)
RECURSIVE Concat(_)
Concat(seqs) == IF seqs = <<>> THEN <<>> ELSE Head(seqs) \o Concat(Tail(seqs))

RECURSIVE join(_, _)
join(sep, seqs) ==
    CASE seqs = <<>> -> <<>>
      [] Len(seqs) = 1 -> seqs[1]
      [] OTHER -> seqs[1] \o sep \o join(sep, Tail(seqs))

EscapeChar(c) ==
    CASE c = QUOTE -> <<BACKSLASH, QUOTE>>
      [] c = BACKSLASH -> <<BACKSLASH, BACKSLASH>>
      [] c = NEWLINE -> <<BACKSLASH, "n">>
      [] OTHER -> <<c>>

encode_str(s) ==
    <<QUOTE>> \o Concat([i \in 1..Len(s) |-> EscapeChar(s[i])]) \o <<QUOTE>>

RECURSIVE json_dumps(_)
json_dumps(val) ==
    CASE val.t = "str" -> encode_str(val.s)
      [] val.t = "int" -> val.s
      [] val.t = "bool" ->
            IF val.s = <<"true">> THEN <<"t", "r", "u", "e">>
                                  ELSE <<"f", "a", "l", "s", "e">>
      [] val.t = "NoneType" -> <<"n", "u", "l", "l">>
      [] val.t = "list" ->
            <<"[">> \o join(<<",", " ">>, [i \in 1..Len(val.v) |-> json_dumps(val.v[i])])
                    \o <<"]">>
      [] val.t = "dict" ->
            <<"{">> \o join(<<",", " ">>,
                            [i \in 1..Len(val.k) |->
                                encode_str(val.k[i]) \o <<":", " ">> \o json_dumps(val.v[i])])
                    \o <<"}">>

(***************************************************************************)
(* _parse_json (src/market_intel.py:56-71)                                 *)
(***************************************************************************)
\* the same leaving the format tag in place
StripOpeningFence_keep_tag(text) ==
    IF startswith(text, FENCE) THEN strip(Drop(text, 3)) ELSE text

StripOpeningFence(text) ==
    IF startswith(text, FENCE)
    THEN With(Drop(text, 3), LAMBDA t3 :
            strip(IF startswith(t3, JSON_TAG) THEN Drop(t3, 4) ELSE t3))
    ELSE text

StripClosingFence(text) ==
    IF endswith(text, FENCE) THEN strip(DropLast(text, 3)) ELSE text

_parse_json(raw) ==
    With(StripClosingFence(StripOpeningFence(strip(raw))), LAMBDA text : json_loads(text))


(***************************************************************************)
(* The structured-output steps of trend_agent, strategy_agent, risk_agent  *)
(* (src/market_intel.py:164-177, 215-226, 265-277)                         *)
(***************************************************************************)
K_trends ==
    <<"t", "r", "e", "n", "d", "s">>

K_sentiment_shifts ==
    <<"s", "e", "n", "t", "i", "m", "e", "n", "t", "_", "s", "h", "i",
      "f", "t", "s">>

K_opportunities ==
    <<"o", "p", "p", "o", "r", "t", "u", "n", "i", "t", "i", "e", "s">>

K_recommendations ==
    <<"r", "e", "c", "o", "m", "m", "e", "n", "d", "a", "t", "i", "o",
      "n", "s">>

K_risks ==
    <<"r", "i", "s", "k", "s">>

K_weak_signals ==
    <<"w", "e", "a", "k", "_", "s", "i", "g", "n", "a", "l", "s">>

K_uncertainties ==
    <<"u", "n", "c", "e", "r", "t", "a", "i", "n", "t", "i", "e", "s">>

\* "Unable to parse structured output."
SENTINEL ==
    <<"U", "n", "a", "b", "l", "e", " ", "t", "o", " ", "p", "a", "r",
      "s", "e", " ", "s", "t", "r", "u", "c", "t", "u", "r", "e", "d",
      " ", "o", "u", "t", "p", "u", "t", ".">>

Stages == {"Trend", "Strategy", "Risk"}

\* the keys of the stage's fallback dict, in the order the code writes them
ExpectedKeys(stage) ==
    CASE stage = "Trend" -> <<K_trends, K_sentiment_shifts>>
      [] stage = "Strategy" -> <<K_opportunities, K_recommendations>>
      [] stage = "Risk" -> <<K_risks, K_weak_signals, K_uncertainties>>

\* the key whose entries the stage logs
PrimaryKey(stage) == ExpectedKeys(stage)[1]

\* the except branch: the raw text under the first key, the sentinel under the others
Fallback(stage, raw) ==
    LET keys == ExpectedKeys(stage)
    IN  JDict(keys,
              [i \in 1..Len(keys) |->
                  IF i = 1 THEN JList(<<JStr(raw)>>) ELSE JList(<<JStr(SENTINEL)>>)])

\* try: result = _parse_json(raw)  except (json.JSONDecodeError, ValueError): fallback
parse_or_fallback(stage, raw) ==
    With(_parse_json(raw), LAMBDA p : IF p.ok THEN p.val ELSE Fallback(stage, raw))

\* Python outcomes: a value, or the exception raised
Returned(val) == [raised |-> FALSE, exc |-> "", val |-> val]

Raised(exc) == [raised |-> TRUE, exc |-> exc, val |-> JNone]

\* obj.get(key, []): only a dict has .get
py_get(obj, key) ==
    IF obj.t # "dict"
    THEN Raised("AttributeError")
    ELSE LET i == IndexOf(obj.k, key)
         IN  Returned(IF i = 0 THEN JList(<<>>) ELSE obj.v[i])

\* iter(obj): the elements of a list, the characters of a str, the keys of a dict
py_iter(obj) ==
    CASE obj.t = "list" -> Returned(obj)
      [] obj.t = "str" -> Returned(JList([i \in 1..Len(obj.s) |-> JStr(<<obj.s[i]>>)]))
      [] obj.t = "dict" -> Returned(JList([i \in 1..Len(obj.k) |-> JStr(obj.k[i])]))
      [] OTHER -> Raised("TypeError")

\* for ... in obj.get(key, []): the entries iterated, as a list
entries_of(obj, key) ==
    With(py_get(obj, key), LAMBDA g : IF g.raised THEN g ELSE py_iter(g.val))

\* sep.join(obj.get(key, [])): every entry must be a str
join_of(obj, key) ==
    With(entries_of(obj, key), LAMBDA e :
        IF e.raised
        THEN e
        ELSE IF \A i \in 1..Len(e.val.v) : e.val.v[i].t = "str"
             THEN Returned(JStr(Concat([i \in 1..Len(e.val.v) |-> e.val.v[i].s])))
             ELSE Raised("TypeError"))

\* the stage from the return of _chat to its own return: the result and the
\* entries it logs, or the exception that leaves the stage
agent_tail(stage, raw) ==
    With(parse_or_fallback(stage, raw), LAMBDA result :
        With(entries_of(result, PrimaryKey(stage)), LAMBDA e :
            IF e.raised
            THEN [raised |-> TRUE, exc |-> e.exc, result |-> result, logged |-> <<>>]
            ELSE [raised |-> FALSE, exc |-> "", result |-> result, logged |-> e.val.v]))


(***************************************************************************)
(* Bounds of the model and constants of the program                        *)
(***************************************************************************)
\* run identifiers start_run may issue (uuid4 never repeats one)
MaxRuns == 2

\* /stream requests made in one behaviour
MaxConsumers == 2

\* hits the search service may return
MaxHits == 2

\* hits the search service may return in the runs that test the cap on articles
MaxResults == 6

\* length of the reasoning service's answers that are enumerated in full
MaxRawLen == 3

\* length of the payloads given to _sse that are enumerated in full
MaxPayloadLen == 3

\* entries in the primary list of an enumerated value of the expected shape
MaxListLen == 2

\* MAX_ARTICLES (src/market_intel.py:34)
MAX_ARTICLES == 5

RunIds == 1..MaxRuns

Consumers == 1..MaxConsumers

\* the same without the slice of line 110: every hit is summarised
Min_first(a, b) == a

\* raw_results[:MAX_ARTICLES] holds the smaller number of elements
Min(a, b) == IF a < b THEN a ELSE b

(***************************************************************************)
(* State                                                                   *)
(***************************************************************************)
VARIABLES
    _runs,      \* the run table (src/app.py:25): run_id -> its queue
    queues,     \* the queue.Queue objects: queues[q] is what is waiting in queue q
    issued,     \* how many run identifiers uuid4 has produced
    reply,      \* the response of the latest POST /run
    thread,     \* thread[r]: the executor thread of run r (_run_pipeline's frame)
    consumer,   \* consumer[c]: the GET /stream request c and its generator
    written,    \* history: written[q] is everything ever put on queue q
    probe       \* the input and result of one structured-output step (ExtractSpec)

vars == <<_runs, queues, issued, reply, thread, consumer, written, probe>>

(***************************************************************************)
(* Queue items: _sse(event, data) (src/app.py:32-35) and the sentinel None.*)
(* An item keeps the event kind and, of the data string, the stage that    *)
(* wrote it, the fixed wording (label), the position it counts (idx) and   *)
(* the value interpolated into it (arg).                                   *)
(***************************************************************************)
Item(event, stage, label, idx, arg) ==
    [event |-> event, stage |-> stage, label |-> label, idx |-> idx, arg |-> arg]

None == Item("None", "", "", 0, JNone)

\* emit(msg): q.put(_sse("log", msg))
emit(stage, label, idx, arg) == Item("log", stage, label, idx, arg)

(***************************************************************************)
(* The collaborators' answers                                              *)
(***************************************************************************)
DigitSeq == <<"1", "2", "3", "4", "5", "6", "7", "8", "9">>

\* the i-th hit of the search service, in its ranking order
Hit(i) == [title |-> <<"h", DigitSeq[i]>>, url |-> <<"u", DigitSeq[i]>>]

\* _chat returns the content stripped (src/market_intel.py:53)
_chat(content) == strip(content)

K_topic ==
    <<"t", "o", "p", "i", "c">>

K_articles ==
    <<"a", "r", "t", "i", "c", "l", "e", "s">>

K_strategy ==
    <<"s", "t", "r", "a", "t", "e", "g", "y">>

K_voice_script ==
    <<"v", "o", "i", "c", "e", "_", "s", "c", "r", "i", "p", "t">>

K_headline ==
    <<"h", "e", "a", "d", "l", "i", "n", "e">>

K_source ==
    <<"s", "o", "u", "r", "c", "e">>

K_summary ==
    <<"s", "u", "m", "m", "a", "r", "y">>

\* articles.append({...}) (src/market_intel.py:120-124)
Article(hit, summary) ==
    JDict(<<K_headline, K_source, K_summary>>,
          <<JStr(hit.title), JStr(hit.url), JStr(summary)>>)

\* report = {...} (src/app.py:80-87)
Report(t, voice_script) ==
    JDict(<<K_topic, K_articles, K_trends, K_strategy, K_risks, K_voice_script>>,
          <<JStr(t.topic), JList(t.articles), t.trends, t.strategy, t.risks,
            voice_script>>)

(***************************************************************************)
(* The executor, _run_pipeline (src/app.py:38-96).  Between two            *)
(* collaborator calls the thread only computes on its own frame and puts   *)
(* items on its queue.  The operators below compute, from the return of    *)
(* one call, the frame at the next call (or at the end) and the items put  *)
(* on the way, in order; the action put then performs the puts one by one, *)
(* so that a consumer may read between any two of them.                    *)
(***************************************************************************)
NoThread ==
    [pc |-> "none", q |-> 0, pending |-> <<>>, topic |-> <<>>,
     include_voice |-> FALSE, raw_results |-> 0, articles |-> <<>>, trends |-> JNone, strategy |-> JNone,
     risks |-> JNone]

Outcome(t, items) == [t |-> t, items |-> items]

\* the same under the event name of a progress line
error_event_as_log(label, arg) == Item("log", "Pipeline", label, 0, arg)

error_event(label, arg) == Item("error", "Pipeline", label, 0, arg)

\* the same without the finally clause
finally_no_marker(t, items) == Outcome([t EXCEPT !.pc = "finished"], items)

\* finally: q.put(None)
finally(t, items) == Outcome([t EXCEPT !.pc = "finished"], Append(items, None))

\* the handler swallowing the exception: except Exception: pass
on_exception_silent(t, items, exc) == finally(t, items)

\* except Exception as exc: q.put(_sse("error", f"Pipeline error: {exc}"))
on_exception(t, items, exc) ==
    finally(t, Append(items, error_event("Pipeline error", JStr(<<exc>>))))

\* lines 79-90: the report, the completion message, the done event
assemble(t, items, voice_script) ==
    finally(t, items \o <<emit("Pipeline", "Pipeline complete.", 0, JNone),
                          Item("done", "Pipeline", "report", 0, Report(t, voice_script))>>)

FirstRaised(outcomes) ==
    LET i == CHOOSE i \in 1..Len(outcomes) :
                 outcomes[i].raised /\ \A j \in 1..(i - 1) : ~outcomes[j].raised
    IN  outcomes[i].exc

\* the same without the test of include_voice (line 69)
after_risk_always_voice(t, items) ==
    Outcome([t EXCEPT !.pc = "voice"],
            items \o <<emit("Voice", "[Voice Agent] Writing broadcast script...", 0, JNone),
                       emit("Voice", "[Voice Agent] Writing voice script ...", 0, JNone)>>)

\* lines 67-77 and voice_agent up to its _chat call; without the flag, the assembly
after_risk(t, items) ==
    IF t.include_voice
    THEN LET items2 == Append(items, emit("Voice", "[Voice Agent] Writing broadcast script...",
                                          0, JNone))
             brief == <<join_of(t.trends, K_trends),
                        join_of(t.strategy, K_opportunities),
                        join_of(t.risks, K_risks)>>
         IN  IF \E i \in 1..3 : brief[i].raised
             THEN on_exception(t, items2, FirstRaised(brief))
             ELSE Outcome([t EXCEPT !.pc = "voice"],
                          Append(items2, emit("Voice", "[Voice Agent] Writing voice script ...",
                                              0, JNone)))
    ELSE assemble(t, items, JNone)

\* lines 63-65 and risk_agent up to its _chat call
after_strategy(t, items) ==
    LET items2 == items \o
            <<emit("Risk", "[Risk Agent] Identifying risks and weak signals...", 0, JNone),
              emit("Risk", "[Risk Agent] Identifying risks and weak signals ...", 1, JNone)>>
        texts == <<entries_of(t.trends, K_trends),
                   entries_of(t.strategy, K_recommendations)>>
    IN  IF \E i \in 1..2 : texts[i].raised
        THEN on_exception(t, items2, FirstRaised(texts))
        ELSE Outcome([t EXCEPT !.pc = "risk"], items2)

\* lines 59-61 and strategy_agent up to its _chat call
after_trend(t, items) ==
    LET items2 == items \o
            <<emit("Strategy", "[Strategy Agent] Generating strategic opportunities...", 0, JNone),
              emit("Strategy", "[Strategy Agent] Generating strategic opportunities ...", 1, JNone)>>
        texts == <<entries_of(t.trends, K_trends),
                   entries_of(t.trends, K_sentiment_shifts)>>
    IN  IF \E i \in 1..2 : texts[i].raised
        THEN on_exception(t, items2, FirstRaised(texts))
        ELSE Outcome([t EXCEPT !.pc = "strategy"], items2)

\* the same without the return of line 53: the abort falls through to the Trend stage
after_data_no_return(t, items) ==
    Outcome([t EXCEPT !.pc = "trend"],
            (IF t.articles = <<>>
             THEN Append(items, error_event("No news articles retrieved. Pipeline aborted.",
                                            JNone))
             ELSE items) \o
            <<emit("Trend", "[Trend Agent] Detecting market trends and sentiment shifts...",
                   0, JNone),
              emit("Trend", "[Trend Agent] Detecting trends and sentiment shifts ...",
                   1, JNone)>>)

\* lines 51-57 and trend_agent up to its _chat call
after_data(t, items) ==
    IF t.articles = <<>>
    THEN finally(t, Append(items, error_event("No news articles retrieved. Pipeline aborted.",
                                              JNone)))
    ELSE Outcome([t EXCEPT !.pc = "trend"],
                 items \o
                 <<emit("Trend", "[Trend Agent] Detecting market trends and sentiment shifts...",
                        0, JNone),
                   emit("Trend", "[Trend Agent] Detecting trends and sentiment shifts ...",
                        1, JNone)>>)

\* the progress lines of a stage: one per entry of its primary list
entry_lines(stage, logged) ==
    [i \in 1..Len(logged) |-> emit(stage, "entry", i, logged[i])]

\* the same with the executor dropping its run's entry when it finishes
Apply_pop(r, o) ==
    /\ thread[r].pending = <<>>
    /\ thread' = [thread EXCEPT ![r] = [o.t EXCEPT !.pending = o.items]]
    /\ _runs' = IF o.t.pc = "finished" THEN {e \in _runs : e[2] # thread[r].q} ELSE _runs
    /\ UNCHANGED <<queues, issued, reply, consumer, written, probe>>

\* the thread goes on from a collaborator call: its frame changes, its puts follow
Apply(r, o) ==
    /\ thread[r].pending = <<>>
    /\ thread' = [thread EXCEPT ![r] = [o.t EXCEPT !.pending = o.items]]
    /\ UNCHANGED <<_runs, queues, issued, reply, consumer, written, probe>>


(***************************************************************************)
(* What the collaborators may answer                                       *)
(***************************************************************************)
\* a response of the expected shape: every expected key with a list of strings
WellFormedValue(stage, entries) ==
    LET keys == ExpectedKeys(stage)
    IN  JDict(keys, [i \in 1..Len(keys) |-> JList([j \in 1..entries |-> JStr(<<"a">>)])])

\* the text between an opening fence with the json tag and a closing fence
Fenced(text) == FENCE \o JSON_TAG \o <<NEWLINE>> \o text \o <<NEWLINE>> \o FENCE

Prose == <<"a", " ", "a">>

\* the contents the reasoning service answers a Trend, Strategy or Risk call with:
\* well-formed, fenced, plain prose, a list at the top level; and, when rich, a
\* mapping without the keys, one whose primary value is a number, one whose
\* primary list holds a number
Contents(stage, rich) ==
    {json_dumps(WellFormedValue(stage, 1)),
     Fenced(json_dumps(WellFormedValue(stage, 1))) \o <<NEWLINE>>,
     Prose,
     json_dumps(JList(<<JStr(<<"a">>)>>))}
    \cup (IF rich
          THEN {json_dumps(JDict(<<>>, <<>>)),
                json_dumps(JDict(<<PrimaryKey(stage)>>, <<JInt(<<"1">>)>>)),
                json_dumps(JDict(<<PrimaryKey(stage)>>, <<JList(<<JInt(<<"1">>)>>)>>))}
          ELSE {})

\* the bodies of POST /run: the topic absent, empty, blank, or a word with blanks
\* around it; include_voice absent, true or false
\* (an absent field is written with its default)
Requests ==
    {req \in [has_topic : BOOLEAN, topic : {<<>>, <<" ">>, <<" ", "a", NEWLINE>>},
              has_voice : BOOLEAN, include_voice : BOOLEAN] :
        /\ ~req.has_topic => req.topic = <<>>
        /\ ~req.has_voice => req.include_voice}

(***************************************************************************)
(* The run table _runs: a set of <<run_id, queue>> pairs                  *)
(***************************************************************************)
Has(run_id) == \E e \in _runs : e[1] = run_id

Lookup(run_id) == (CHOOSE e \in _runs : e[1] = run_id)[2]

(***************************************************************************)
(* POST /run: start_run (src/app.py:108-122)                               *)
(***************************************************************************)
\* the same without .strip()
topic_of_unstripped(req) == IF req.has_topic THEN req.topic ELSE <<>>

\* data.get("topic", "").strip()
topic_of(req) == strip(IF req.has_topic THEN req.topic ELSE <<>>)

\* bool(data.get("include_voice", True))
include_voice_of(req) == IF req.has_voice THEN req.include_voice ELSE TRUE

\* the same with one queue for every run instead of queue.Queue() per run (line 117)
start_run_shared_queue(req) ==
    IF topic_of(req) = <<>>
    THEN /\ reply' = [status |-> 400, run_id |-> 0]
         /\ UNCHANGED <<_runs, queues, issued, thread, consumer, written, probe>>
    ELSE /\ LET run_id == issued + 1
            IN  /\ issued' = run_id
                /\ _runs' = _runs \cup {<<run_id, 1>>}
                /\ thread' = [thread EXCEPT ![run_id] =
                                 [NoThread EXCEPT !.pc = "ready",
                                                  !.topic = topic_of(req),
                                                  !.include_voice = include_voice_of(req)]]
                /\ reply' = [status |-> 200, run_id |-> run_id]
         /\ UNCHANGED <<queues, consumer, written, probe>>

start_run(req) ==
    IF topic_of(req) = <<>>
    THEN /\ reply' = [status |-> 400, run_id |-> 0]
         /\ UNCHANGED <<_runs, queues, issued, thread, consumer, written, probe>>
    ELSE /\ LET run_id == issued + 1
            IN  /\ issued' = run_id
                /\ _runs' = _runs \cup {<<run_id, run_id>>}
                /\ thread' = [thread EXCEPT ![run_id] =
                                 [NoThread EXCEPT !.pc = "ready",
                                                  !.topic = topic_of(req),
                                                  !.include_voice = include_voice_of(req)]]
                /\ reply' = [status |-> 200, run_id |-> run_id]
         /\ UNCHANGED <<queues, consumer, written, probe>>

(***************************************************************************)
(* The executor's steps                                                    *)
(***************************************************************************)
\* the same with the start line (line 46) after the call of data_agent
run_pipeline_begin_late_start(r) ==
    /\ thread[r].pc = "ready"
    /\ LET t == thread[r]
       IN  thread' = [thread EXCEPT ![r] =
               IF Has(r)
               THEN [t EXCEPT !.pc = "search", !.q = Lookup(r), !.pending =
                       <<emit("Data", "[Data Agent] Searching for recent news...", 0, JNone),
                         emit("Data", "[Data Agent] Searching news for", 0, JStr(t.topic)),
                         emit("Pipeline", "Pipeline started for topic", 0, JStr(t.topic))>>]
               ELSE [t EXCEPT !.pc = "KeyError"]]
    /\ UNCHANGED <<_runs, queues, issued, reply, consumer, written, probe>>

\* lines 40-50 and data_agent up to requests.post (src/market_intel.py:89-100)
run_pipeline_begin(r) ==
    /\ thread[r].pc = "ready"
    /\ LET t == thread[r]
       IN  thread' = [thread EXCEPT ![r] =
               IF Has(r)
               THEN [t EXCEPT !.pc = "search", !.q = Lookup(r), !.pending =
                       <<emit("Pipeline", "Pipeline started for topic", 0, JStr(t.topic)),
                         emit("Data", "[Data Agent] Searching for recent news...", 0, JNone),
                         emit("Data", "[Data Agent] Searching news for", 0, JStr(t.topic))>>]
               ELSE \* _runs[run_id] raises KeyError outside the try: the thread dies
                    [t EXCEPT !.pc = "KeyError"]]
    /\ UNCHANGED <<_runs, queues, issued, reply, consumer, written, probe>>

\* the same on a queue made with a capacity, queue.Queue(maxsize=4): put blocks
\* while the queue is full
put_bounded(r) ==
    /\ thread[r].pending # <<>>
    /\ Len(queues[thread[r].q]) < 4
    /\ LET q == thread[r].q
           item == Head(thread[r].pending)
       IN  /\ queues' = [queues EXCEPT ![q] = Append(@, item)]
           /\ written' = [written EXCEPT ![q] = Append(@, item)]
    /\ thread' = [thread EXCEPT ![r].pending = Tail(@)]
    /\ UNCHANGED <<_runs, issued, reply, consumer, probe>>

\* q.put(item): the next put of the thread (lines 43, 52, 90, 93, 96); never blocks
put(r) ==
    /\ thread[r].pending # <<>>
    /\ LET q == thread[r].q
           item == Head(thread[r].pending)
       IN  /\ queues' = [queues EXCEPT ![q] = Append(@, item)]
           /\ written' = [written EXCEPT ![q] = Append(@, item)]
    /\ thread' = [thread EXCEPT ![r].pending = Tail(@)]
    /\ UNCHANGED <<_runs, issued, reply, consumer, probe>>

\* requests.post returns n hits (src/market_intel.py:100-110)
search_returns(r, n) ==
    /\ thread[r].pc = "search"
    /\ \E o \in {IF n = 0
                  THEN after_data(thread[r],
                                  <<emit("Data", "[Data Agent] No results returned from Tavily.",
                                         0, JNone)>>)
                  ELSE Outcome([thread[r] EXCEPT !.pc = "summarise", !.raw_results = n],
                               <<>>)} :
        Apply(r, o)

\* requests.post or raise_for_status raises
search_fails(r) ==
    /\ thread[r].pc = "search"
    /\ \E o \in {on_exception(thread[r], <<>>, "RequestException")} : Apply(r, o)

\* the _chat of one article returns (src/market_intel.py:115-127)
summary_returns(r, content) ==
    /\ thread[r].pc = "summarise"
    /\ LET t == thread[r]
           i == Len(t.articles) + 1
           t2 == [t EXCEPT !.articles = Append(@, Article(Hit(i), _chat(content)))]
           line == <<emit("Data", "article", i, JStr(Hit(i).title))>>
       IN  \E o \in {IF i < Min(t.raw_results, MAX_ARTICLES)
                     THEN Outcome(t2, line)
                     ELSE after_data(t2, line)} :
               Apply(r, o)

\* a _chat call raises, in whichever stage is waiting for it
chat_fails(r) ==
    /\ thread[r].pc \in {"summarise", "trend", "strategy", "risk", "voice"}
    /\ \E o \in {on_exception(thread[r], <<>>, "ApiError")} : Apply(r, o)

\* trend_agent from the return of _chat (src/market_intel.py:164-177)
trend_returns(r, content) ==
    /\ thread[r].pc = "trend"
    /\ \E a \in {agent_tail("Trend", _chat(content))} :
        \E o \in {IF a.raised
                   THEN on_exception(thread[r], <<>>, a.exc)
                   ELSE after_trend([thread[r] EXCEPT !.trends = a.result],
                        entry_lines("Trend", a.logged))} :
            Apply(r, o)

\* strategy_agent from the return of _chat (src/market_intel.py:215-226)
strategy_returns(r, content) ==
    /\ thread[r].pc = "strategy"
    /\ \E a \in {agent_tail("Strategy", _chat(content))} :
        \E o \in {IF a.raised
                   THEN on_exception(thread[r], <<>>, a.exc)
                   ELSE after_strategy([thread[r] EXCEPT !.strategy = a.result],
                        entry_lines("Strategy", a.logged))} :
            Apply(r, o)

\* risk_agent from the return of _chat (src/market_intel.py:265-277)
risk_returns(r, content) ==
    /\ thread[r].pc = "risk"
    /\ \E a \in {agent_tail("Risk", _chat(content))} :
        \E o \in {IF a.raised
                   THEN on_exception(thread[r], <<>>, a.exc)
                   ELSE after_risk([thread[r] EXCEPT !.risks = a.result],
                        entry_lines("Risk", a.logged))} :
            Apply(r, o)

\* voice_agent from the return of _chat (src/market_intel.py:295-316)
voice_returns(r, content) ==
    /\ thread[r].pc = "voice"
    /\ \E o \in {assemble(thread[r], <<>>, JStr(_chat(content)))} : Apply(r, o)

(***************************************************************************)
(* GET /stream/<run_id>: stream and its generator (src/app.py:125-142)     *)
(***************************************************************************)
NoConsumer == [pc |-> "idle", run_id |-> 0, q |-> 0, read |-> <<>>]

\* the same without the membership test of line 127
stream_unchecked(c, run_id) ==
    /\ consumer[c].pc = "idle"
    /\ consumer' = [consumer EXCEPT ![c].run_id = run_id, ![c].pc = "checked"]
    /\ UNCHANGED <<_runs, queues, issued, reply, thread, written, probe>>

\* line 127: if run_id not in _runs: 404
stream(c, run_id) ==
    /\ consumer[c].pc = "idle"
    /\ consumer' = [consumer EXCEPT ![c].run_id = run_id,
                                    ![c].pc = IF Has(run_id) THEN "checked" ELSE "404"]
    /\ UNCHANGED <<_runs, queues, issued, reply, thread, written, probe>>

\* line 130: q = _runs[run_id], and the Response around generate()
stream_lookup(c) ==
    /\ consumer[c].pc = "checked"
    /\ LET run_id == consumer[c].run_id
       IN  consumer' = [consumer EXCEPT ![c] =
                           IF Has(run_id)
                           THEN [@ EXCEPT !.pc = "streaming", !.q = Lookup(run_id)]
                           ELSE [@ EXCEPT !.pc = "KeyError"]]
    /\ UNCHANGED <<_runs, queues, issued, reply, thread, written, probe>>

\* the same reading the head of the queue without taking it off
generate_peek(c) ==
    /\ consumer[c].pc = "streaming"
    /\ queues[consumer[c].q] # <<>>
    /\ LET msg == Head(queues[consumer[c].q])
       IN  IF msg = None
           THEN /\ _runs' = {e \in _runs : e[1] # consumer[c].run_id}
                /\ consumer' = [consumer EXCEPT ![c].pc = "closed",
                                                ![c].read = Append(@, msg)]
           ELSE /\ _runs' = _runs
                /\ consumer' = [consumer EXCEPT ![c].read = Append(@, msg)]
    /\ UNCHANGED <<queues, issued, reply, thread, written, probe>>

\* lines 133-139: one turn of the loop; q.get() blocks while the queue is empty
generate(c) ==
    /\ consumer[c].pc = "streaming"
    /\ queues[consumer[c].q] # <<>>
    /\ LET q == consumer[c].q
           msg == Head(queues[q])
       IN  /\ queues' = [queues EXCEPT ![q] = Tail(@)]
           /\ IF msg = None
              THEN /\ _runs' = {e \in _runs : e[1] # consumer[c].run_id}
                   /\ consumer' = [consumer EXCEPT ![c].pc = "closed",
                                                   ![c].read = Append(@, msg)]
              ELSE /\ _runs' = _runs
                   /\ consumer' = [consumer EXCEPT ![c].read = Append(@, msg)]
    /\ UNCHANGED <<issued, reply, thread, written, probe>>

(***************************************************************************)
(* Specifications                                                          *)
(***************************************************************************)
NoProbe == [pc |-> "none", stage |-> "", content |-> <<>>, value |-> JNone,
            out |-> [raised |-> FALSE, exc |-> "", result |-> JNone, logged |-> <<>>]]

Init ==
    /\ _runs = {}
    /\ queues = [q \in RunIds |-> <<>>]
    /\ issued = 0
    /\ reply = [status |-> 0, run_id |-> 0]
    /\ thread = [r \in RunIds |-> NoThread]
    /\ consumer = [c \in Consumers |-> NoConsumer]
    /\ written = [q \in RunIds |-> <<>>]
    /\ probe = NoProbe

\* POST /run: at most limit runs are created; a rejected request that follows
\* another rejected request changes nothing and is left to stuttering
Create(limit, requests) ==
    \E req \in requests :
        /\ IF topic_of(req) = <<>> THEN reply.status # 400 ELSE issued < limit
        /\ start_run(req)

\* the bodies that leave include_voice out
DefaultVoice == {req \in Requests : ~req.has_voice /\ req.include_voice}

\* a run up to the search call, and its end when the search finds nothing or fails
ShortRun(runs) ==
    \/ \E r \in runs : run_pipeline_begin(r)
    \/ \E r \in runs : put(r)
    \/ \E r \in runs : search_returns(r, 0)
    \/ \E r \in runs : search_fails(r)

\* the answers of the reasoning service per stage, enumerated once
ContentsOf == [stage \in Stages |-> [rich \in BOOLEAN |-> Contents(stage, rich)]]

\* a run whose search found hits: the summaries and the four reasoning stages
LongRun(runs, rich) ==
    \/ \E r \in runs, n \in 1..MaxHits : search_returns(r, n)
    \/ \E r \in runs : summary_returns(r, <<"s", " ">>)
    \/ \E r \in runs : chat_fails(r)
    \/ \E r \in runs, content \in ContentsOf["Trend"][rich] : trend_returns(r, content)
    \/ \E r \in runs, content \in ContentsOf["Strategy"][rich] : strategy_returns(r, content)
    \/ \E r \in runs, content \in ContentsOf["Risk"][rich] : risk_returns(r, content)
    \/ \E r \in runs : voice_returns(r, <<"v", NEWLINE>>)

\* GET /stream/<run_id> for any identifier, and the generators' reads
Streams(consumers) ==
    \/ \E c \in consumers, run_id \in RunIds : stream(c, run_id)
    \/ \E c \in consumers : stream_lookup(c)
    \/ \E c \in consumers : generate(c)

\* MaxRuns runs and MaxConsumers consumers side by side; every search finds
\* nothing or fails, which keeps each run to its first six puts, and no request
\* sets include_voice, which such a run never reads
Next == Create(MaxRuns, DefaultVoice) \/ ShortRun(RunIds) \/ Streams(Consumers)

Spec == Init /\ [][Next]_vars

\* one run with one consumer; the collaborators answer in every modelled way
PipelineNext ==
    Create(1, Requests) \/ ShortRun({1}) \/ LongRun({1}, TRUE) \/ Streams({1})

PipelineSpec == Init /\ [][PipelineNext]_vars

\* one run whose search finds nothing or fails, and MaxConsumers /stream requests
\* for its identifier or for identifiers that were never issued
AttachNext == Create(1, DefaultVoice) \/ ShortRun({1}) \/ Streams(Consumers)

AttachSpec == Init /\ [][AttachNext]_vars

\* MaxRuns runs side by side, each up to the end its search leads to, and one
\* /stream request, so that some runs have a consumer and others have none
RunsNext == Create(MaxRuns, DefaultVoice) \/ ShortRun(RunIds) \/ Streams({1})

RunsSpec == Init /\ [][RunsNext]_vars

\* one run without a consumer; the search returns up to MaxResults hits, more than
\* MAX_ARTICLES among them
HitsNext ==
    \/ Create(1, DefaultVoice)
    \/ ShortRun({1})
    \/ \E n \in 1..MaxResults : search_returns(1, n)
    \/ LongRun({1}, FALSE)

HitsSpec == Init /\ [][HitsNext]_vars

\* any step of the executor thread of run r
Executor(r) == ShortRun({r}) \/ LongRun({r}, FALSE)

\* one run, whose thread the scheduler does not starve and whose collaborator calls
\* all return or fail, and one /stream request, which may never come or may stop
\* reading at any point
LiveNext == Create(1, DefaultVoice) \/ Executor(1) \/ Streams({1})

LiveSpec == Init /\ [][LiveNext]_vars /\ WF_vars(Executor(1))


(***************************************************************************)
(* The structured-output step on its own: a stage from the return of its   *)
(* _chat call (trend_agent, strategy_agent, risk_agent), for one stage and *)
(* one answer of the reasoning service                                     *)
(***************************************************************************)
RawAlphabet == {"[", "]", "{", "}", QUOTE, ":", "a", "1", " "}

\* every text of at most n characters
Texts(n) == UNION {[1..k -> RawAlphabet] : k \in 0..n}

\* longer answers that decode to something other than a mapping, or not at all
OtherTexts ==
    {<<"n", "u", "l", "l">>, <<"t", "r", "u", "e">>,
     json_dumps(JList(<<JStr(<<"a">>)>>)),
     Fenced(json_dumps(JList(<<>>))),
     Fenced(<<"{", QUOTE, "a", QUOTE, "}">>),
     Prose}

\* the strings in the lists of an enumerated value: plain ones, and ones made of
\* the characters the encoding and the fence removal treat specially
ValueStrings ==
    {<<>>, <<"a">>, <<QUOTE>>, <<BACKSLASH, "n">>, <<NEWLINE>>, FENCE, <<"}", ",", " ">>}

Lists(n) == UNION {[1..k -> {JStr(str) : str \in ValueStrings}] : k \in 0..n}

\* the mappings of the expected shape: every expected key with a list of strings
Values(stage) ==
    {JDict(ExpectedKeys(stage),
           [i \in 1..Len(ExpectedKeys(stage)) |-> JList(IF i = 1 THEN primary ELSE other)]) :
        primary \in Lists(MaxListLen), other \in Lists(1)}

\* an encoding bare, between blanks, and between fences with and without the tag
Wrappings(text) ==
    {text,
     <<" ">> \o text \o <<NEWLINE>>,
     Fenced(text),
     FENCE \o <<NEWLINE>> \o text \o <<NEWLINE>> \o FENCE,
     <<" ">> \o FENCE \o JSON_TAG \o <<" ">> \o text \o FENCE \o <<NEWLINE>>,
     FENCE \o text \o FENCE}

Probe(stage, content, value) ==
    [NoProbe EXCEPT !.pc = "ready", !.stage = stage, !.content = content, !.value = value]

\* the stage and the answer of the probe: any short text, or an encoding of a
\* value of the expected shape, which the probe keeps next to it
ExtractInit ==
    /\ _runs = {}
    /\ queues = [q \in RunIds |-> <<>>]
    /\ issued = 0
    /\ reply = [status |-> 0, run_id |-> 0]
    /\ thread = [r \in RunIds |-> NoThread]
    /\ consumer = [c \in Consumers |-> NoConsumer]
    /\ written = [q \in RunIds |-> <<>>]
    /\ \E stage \in Stages :
          \/ \E content \in Texts(MaxRawLen) \cup OtherTexts :
                probe = Probe(stage, content, JNone)
          \/ \E value \in Values(stage) :
                \E content \in Wrappings(json_dumps(value)) :
                    probe = Probe(stage, content, value)

\* raw = _chat(...), then the stage to its return
extract ==
    /\ probe.pc = "ready"
    /\ probe' = [probe EXCEPT !.pc = "done",
                              !.out = agent_tail(probe.stage, _chat(probe.content))]
    /\ UNCHANGED <<_runs, queues, issued, reply, thread, consumer, written>>

ExtractNext == extract

ExtractSpec == ExtractInit /\ [][ExtractNext]_vars


(***************************************************************************)
(* _sse on its own (src/app.py:32-35): one event kind and one payload      *)
(***************************************************************************)
CARRIAGE_RETURN == "\r"

EventChars(kind) ==
    CASE kind = "log" -> <<"l", "o", "g">>
      [] kind = "error" -> <<"e", "r", "r", "o", "r">>
      [] kind = "done" -> <<"d", "o", "n", "e">>

\* data.replace("\n", "\\n"): each newline becomes a backslash and the letter n
escape_newlines(data) ==
    Concat([i \in 1..Len(data) |->
               IF data[i] = NEWLINE THEN <<BACKSLASH, "n">> ELSE <<data[i]>>])

\* f"event: {event}\ndata: {payload}\n\n"
_sse(event, data) ==
    <<"e", "v", "e", "n", "t", ":", " ">> \o event \o <<NEWLINE>>
        \o <<"d", "a", "t", "a", ":", " ">> \o escape_newlines(data) \o <<NEWLINE, NEWLINE>>

PayloadAlphabet == {"a", " ", ":", BACKSLASH, NEWLINE, CARRIAGE_RETURN}

Payloads(n) == UNION {[1..k -> PayloadAlphabet] : k \in 0..n}

FrameInit ==
    /\ _runs = {}
    /\ queues = [q \in RunIds |-> <<>>]
    /\ issued = 0
    /\ reply = [status |-> 0, run_id |-> 0]
    /\ thread = [r \in RunIds |-> NoThread]
    /\ consumer = [c \in Consumers |-> NoConsumer]
    /\ written = [q \in RunIds |-> <<>>]
    /\ \E kind \in {"log", "error", "done"}, data \in Payloads(MaxPayloadLen) :
          probe = Probe(kind, data, JNone)

\* the probe's message is framed: out becomes _sse(event, data)
frame ==
    /\ probe.pc = "ready"
    /\ probe' = [probe EXCEPT !.pc = "framed",
                              !.out = _sse(EventChars(probe.stage), probe.content)]
    /\ UNCHANGED <<_runs, queues, issued, reply, thread, consumer, written>>

FrameNext == frame

FrameSpec == FrameInit /\ [][FrameNext]_vars

(***************************************************************************)
(* Properties                                                              *)
(***************************************************************************)
Terminal == {"done", "error"}

\* the positions of seq that hold an event of one of the kinds
Positions(seq, kinds) == {i \in 1..Len(seq) : seq[i].event \in kinds}

ReasoningStages == {"Trend", "Strategy", "Risk", "Voice"}

\* the executor of run r has returned and every put it made has happened
Ended(r) == thread[r].pc = "finished" /\ thread[r].pending = <<>>

IsPrefix(a, b) == Len(a) <= Len(b) /\ SubSeq(b, 1, Len(a)) = a

\* C1: every started executor ends by returning from _run_pipeline (no path dies
\* before the try), an ended executor has written None to its channel, None is
\* written at most once and nothing is written after it: whenever None is on the
\* channel it is the last item and the executor has nothing left to write
C1_MarkerOnceAndLast ==
    \A r \in RunIds :
        /\ thread[r].pc # "KeyError"
        /\ thread[r].q # 0 =>
              LET w == written[thread[r].q]
              IN  /\ \A i \in 1..Len(w) : w[i] = None => i = Len(w)
                  /\ Ended(r) <=> (w # <<>> /\ w[Len(w)] = None)

\* a run that went through every stage and ended, `done` and None on its channel
C1_Witness ==
    \E r \in RunIds :
        /\ Ended(r)
        /\ thread[r].risks # JNone
        /\ Positions(written[thread[r].q], {"done"}) # {}
        /\ written[thread[r].q][Len(written[thread[r].q])] = None

\* C2: a channel never holds more than one terminal event (`done` or `error`),
\* and once None is on it, it holds exactly one, written before None
C2_OneTerminalEvent ==
    \A q \in RunIds :
        LET w == written[q]
            T == Positions(w, Terminal)
        IN  /\ Cardinality(T) <= 1
            /\ \A j \in 1..Len(w) :
                  w[j] = None => Cardinality(T) = 1 /\ \A i \in T : i < j

\* a run that failed after its Trend stage had started: one `error`, then None
C2_Witness ==
    \E q \in RunIds :
        LET w == written[q]
        IN  /\ w # <<>> /\ w[Len(w)] = None
            /\ Positions(w, {"error"}) # {}
            /\ \E i \in 1..Len(w) : w[i].stage = "Trend"

\* C3: what the one consumer of a run has read is at every moment a prefix of what
\* the executor has written, and together with what waits in the queue it is all
\* of it; None is read last and only once, the generator is closed exactly when
\* it has read None, and the item read before None is `done` or `error`
C3_ConsumerReadsPrefix ==
    \A c \in Consumers :
        LET cs == consumer[c]
            n == Len(cs.read)
        IN  /\ cs.q = 0 => cs.read = <<>>
            /\ cs.q # 0 =>
                  /\ IsPrefix(cs.read, written[cs.q])
                  /\ cs.read \o queues[cs.q] = written[cs.q]
                  /\ \A i \in 1..n : cs.read[i] = None => i = n
                  /\ cs.pc = "closed" <=> (n > 0 /\ cs.read[n] = None)
                  /\ cs.pc = "closed" => n >= 2 /\ cs.read[n - 1].event \in Terminal

\* the consumer has read a whole successful run: ..., `done`, None
C3_Witness ==
    \E c \in Consumers :
        LET cs == consumer[c]
            n == Len(cs.read)
        IN  /\ cs.pc = "closed"
            /\ n > 6
            /\ cs.read[n - 1].event = "done"
            /\ cs.read = written[cs.q]

\* C4: the step in which the search call of run r returns no hit leaves the
\* executor at its end with no article, and what is and will be on the channel
\* (the items written and the puts still to happen) holds exactly one `error`,
\* no `done`, and no item of the Trend, Strategy, Risk or Voice stage
C4_EmptySearchAborts ==
    [][\A r \in RunIds :
          search_returns(r, 0) =>
              LET ch == written'[thread'[r].q] \o thread'[r].pending
              IN  /\ thread'[r].pc = "finished"
                  /\ thread'[r].articles = <<>>
                  /\ Cardinality(Positions(ch, {"error"})) = 1
                  /\ Positions(ch, {"done"}) = {}
                  /\ \A i \in 1..Len(ch) : ch[i].stage \notin ReasoningStages
                  /\ ch[Len(ch)] = None]_vars

\* a run ended after a search without hits, all its items on the channel
C4_Witness ==
    \E r \in RunIds :
        /\ Ended(r)
        /\ \E i \in 1..Len(written[thread[r].q]) :
              written[thread[r].q][i].label = "[Data Agent] No results returned from Tavily."
        /\ Cardinality(Positions(written[thread[r].q], {"error"})) = 1

\* the error events a failed collaborator call leaves on a channel
CollaboratorFailed(w) ==
    \E i \in Positions(w, {"error"}) :
        w[i].arg \in {JStr(<<"ApiError">>), JStr(<<"RequestException">>)}

\* C5: a run whose Data stage returned at least one article and in which no
\* collaborator call failed has, once ended, no `error` event on its channel and a
\* `done` event, whatever texts the Trend, Strategy and Risk calls returned
C5_ContentNeverAborts ==
    \A r \in RunIds :
        (Ended(r) /\ thread[r].articles # <<>> /\ ~CollaboratorFailed(written[thread[r].q]))
            => /\ Positions(written[thread[r].q], {"error"}) = {}
               /\ Positions(written[thread[r].q], {"done"}) # {}

\* C6: when the raw text does not decode, or decodes to a value that is not a
\* mapping, the stage's result is the mapping of its expected keys in which the
\* first key holds the list of the raw text alone and every other key holds the
\* list of the sentinel string alone
C6_FallbackOnEveryDecodeFailure ==
    probe.pc = "done" =>
        LET raw == _chat(probe.content)
            p == _parse_json(raw)
            keys == ExpectedKeys(probe.stage)
            result == probe.out.result
        IN  (~p.ok \/ p.val.t # "dict") =>
                /\ result.t = "dict"
                /\ result.k = keys
                /\ result.v[1] = JList(<<JStr(raw)>>)
                /\ \A i \in 2..Len(keys) : result.v[i] = JList(<<JStr(SENTINEL)>>)

\* C7: for a mapping of the expected shape, the stage fed with its encoding, bare
\* or between fences and blanks, returns that same mapping and not the fallback
C7_RoundTrip ==
    (probe.pc = "done" /\ probe.value # JNone) =>
        /\ ~probe.out.raised
        /\ probe.out.result = probe.value
        /\ probe.out.result # Fallback(probe.stage, _chat(probe.content))

\* extracted from between fences with the tag: a mapping of the expected shape
\* whose primary list holds a string that is itself a fence
C7_Witness ==
    /\ probe.pc = "done"
    /\ probe.value # JNone
    /\ startswith(strip(probe.content), FENCE \o JSON_TAG)
    /\ probe.out.result = probe.value
    /\ \E i \in 1..Len(probe.value.v[1].v) : probe.value.v[1].v[i] = JStr(FENCE)

\* C8: a step of stream for an identifier that is not in the run table answers
\* 404 without a queue, and leaves the run table and every queue as they were;
\* a request answered 404 does nothing afterwards
C8_UnknownRunNotFound ==
    [][\A c \in Consumers :
          /\ \A run_id \in RunIds :
                (~Has(run_id) /\ stream(c, run_id)) =>
                    /\ consumer'[c].pc = "404"
                    /\ consumer'[c].q = 0
                    /\ UNCHANGED <<_runs, queues, written>>
          /\ consumer[c].pc = "404" => consumer'[c] = consumer[c]]_vars

\* 404 for an identifier that was issued and whose entry a consumer has reclaimed
C8_Witness ==
    \E c, d \in Consumers :
        /\ consumer[c].pc = "404"
        /\ consumer[c].run_id <= issued
        /\ consumer[d].pc = "closed"
        /\ consumer[d].run_id = consumer[c].run_id

\* a consumer has read the None of run r
Reclaimed(r) == \E c \in Consumers : consumer[c].run_id = r /\ consumer[c].pc = "closed"

\* C9: an issued identifier is in the run table, with its own queue, as long as no
\* consumer has read its None; and no stream request that found the identifier in
\* the table (line 127) fails to get its queue (line 130)
C9_AttachSucceedsInWindow ==
    /\ \A r \in 1..issued : ~Reclaimed(r) => Has(r) /\ Lookup(r) = r
    /\ \A c \in Consumers : consumer[c].pc # "KeyError"

\* a topic absent, empty or made of blanks only
Blank(req) == ~req.has_topic \/ \A i \in 1..Len(req.topic) : req.topic[i] \in Whitespace

\* C10: a step of start_run for a request with a blank topic answers 400 without a
\* run identifier, and leaves the run table, the executors, the queues and
\* everything written to them as they were
C10_BlankTopicRejected ==
    [][\A req \in Requests :
          (Blank(req) /\ start_run(req)) =>
              /\ reply'.status = 400
              /\ reply'.run_id = 0
              /\ UNCHANGED <<_runs, issued, thread, queues, written, consumer>>]_vars

\* a request rejected while an earlier run is in the table, its executor at work
C10_Witness ==
    /\ reply.status = 400
    /\ reply.run_id = 0
    /\ \E r \in RunIds : Has(r) /\ thread[r].pc = "search"

\* C11: a generator that got the queue of its run and can read no more (the
\* executor has ended and the queue is empty) has ended too, and what it yielded
\* is progress events followed by exactly one `done` or `error`, right before None
C11_EveryStreamEnds ==
    \A c \in Consumers :
        LET cs == consumer[c]
            n == Len(cs.read)
        IN  (cs.pc \in {"streaming", "closed"} /\ Ended(cs.run_id) /\ queues[cs.q] = <<>>)
                => /\ cs.pc = "closed"
                   /\ n >= 2
                   /\ Positions(cs.read, Terminal) = {n - 1}

\* the stage that makes the collaborator call the executor is waiting in
StageOf(pc) ==
    CASE pc \in {"search", "summarise"} -> "Data"
      [] pc = "trend" -> "Trend"
      [] pc = "strategy" -> "Strategy"
      [] pc = "risk" -> "Risk"
      [] pc = "voice" -> "Voice"

\* the place of a stage in the pipeline
Rank(stage) ==
    CASE stage = "Data" -> 1
      [] stage = "Trend" -> 2
      [] stage = "Strategy" -> 3
      [] stage = "Risk" -> 4
      [] stage = "Voice" -> 5

StageNames == {"Data", "Trend", "Strategy", "Risk", "Voice"}

\* C12: the step in which a collaborator call of run r fails (the search call, or
\* the reasoning call of whichever stage is waiting) ends the executor normally,
\* and what is and will be on the channel holds no item of a later stage, no
\* `done`, and exactly one `error`, which names the failure and is followed by
\* None as the last item
C12_CollaboratorFailureEndsRun ==
    [][\A r \in RunIds :
          (search_fails(r) \/ chat_fails(r)) =>
              LET ch == written'[thread[r].q] \o thread'[r].pending
                  n == Len(ch)
              IN  /\ thread'[r].pc = "finished"
                  /\ Positions(ch, {"error"}) = {n - 1}
                  /\ ch[n - 1].label = "Pipeline error"
                  /\ ch[n - 1].arg \in {JStr(<<"RequestException">>), JStr(<<"ApiError">>)}
                  /\ Positions(ch, {"done"}) = {}
                  /\ ch[n] = None
                  /\ \A i \in 1..n : ch[i].stage \in StageNames =>
                        Rank(ch[i].stage) <= Rank(StageOf(thread[r].pc))]_vars

\* a run ended by the failure of the Strategy call, all its items on the channel
C12_Witness ==
    \E r \in RunIds :
        LET w == written[thread[r].q]
        IN  /\ Ended(r)
            /\ thread[r].trends # JNone
            /\ thread[r].strategy = JNone
            /\ \E i \in Positions(w, {"error"}) : w[i].arg = JStr(<<"ApiError">>)

\* C13: a run started with include_voice false never waits in the Voice call and
\* never has a Voice item written or to be written; a `done` report of it has
\* None under voice_script; and once its Risk stage has returned, it ends with
\* `done` and without `error`
C13_NoVoiceWhenNotRequested ==
    \A r \in RunIds :
        (thread[r].pc # "none" /\ ~thread[r].include_voice) =>
            LET ch == (IF thread[r].q = 0 THEN <<>> ELSE written[thread[r].q])
                          \o thread[r].pending
            IN  /\ thread[r].pc # "voice"
                /\ \A i \in 1..Len(ch) : ch[i].stage # "Voice"
                /\ \A i \in Positions(ch, {"done"}) :
                      ch[i].arg.v[IndexOf(ch[i].arg.k, K_voice_script)] = JNone
                /\ thread[r].risks # JNone =>
                      /\ thread[r].pc = "finished"
                      /\ Positions(ch, {"error"}) = {}
                      /\ Cardinality(Positions(ch, {"done"})) = 1

\* a run without voice that ended with `done`, all its items on the channel
C13_Witness ==
    \E r \in RunIds :
        /\ Ended(r)
        /\ ~thread[r].include_voice
        /\ Positions(written[thread[r].q], {"done"}) # {}

\* the stages the run needs before its report
Required(r) ==
    {"Data", "Trend", "Strategy", "Risk"} \cup (IF thread[r].include_voice THEN {"Voice"} ELSE {})

\* C14: of the items a run has written and is about to write, the first is the
\* start line with the topic; the items of the stages come in the order Data,
\* Trend, Strategy, Risk, Voice, and a stage has items only when the stage before
\* it has returned (Voice only when requested); the completion line comes after
\* items of every required stage and of no stage after it, and `done` right after
\* the completion line
C14_StagesInOrder ==
    \A r \in RunIds :
        thread[r].q # 0 =>
            LET t == thread[r]
                ch == written[t.q] \o t.pending
                n == Len(ch)
                staged == {i \in 1..n : ch[i].stage \in StageNames}
                has(stage) == \E i \in staged : ch[i].stage = stage
            IN  /\ ch[1].label = "Pipeline started for topic"
                /\ ch[1].arg = JStr(t.topic)
                /\ \A i \in 2..n : ch[i].label # "Pipeline started for topic"
                /\ \A i, j \in staged : i < j => Rank(ch[i].stage) <= Rank(ch[j].stage)
                /\ has("Trend") => t.pc \notin {"search", "summarise"} /\ t.articles # <<>>
                /\ has("Strategy") => t.trends # JNone
                /\ has("Risk") => t.strategy # JNone
                /\ has("Voice") => t.risks # JNone /\ t.include_voice
                /\ \A i \in 1..n :
                      ch[i].label = "Pipeline complete." =>
                          /\ \A stage \in Required(r) : \E j \in staged : j < i /\ ch[j].stage = stage
                          /\ \A j \in staged : j < i
                          /\ t.risks # JNone
                          /\ i < n /\ ch[i + 1].event = "done"
                /\ \A i \in Positions(ch, {"done"}) :
                      /\ ch[i - 1].label = "Pipeline complete."
                      /\ t.include_voice =>
                            ch[i].arg.v[IndexOf(ch[i].arg.k, K_voice_script)] # JNone

\* a run with voice that went through its five stages and wrote `done`
C14_Witness ==
    \E r \in RunIds :
        /\ Ended(r)
        /\ thread[r].include_voice
        /\ Positions(written[thread[r].q], {"done"}) # {}
        /\ \E i \in 1..Len(written[thread[r].q]) : written[thread[r].q][i].stage = "Voice"

\* C15: two started runs never have the same queue; a run with a put to make, or
\* about to begin, or to which the search call may answer, can take that step
\* whatever the other runs are doing; and every step that adds to what was
\* written to a queue is the put of the one executor that holds that queue,
\* appending the next item of that executor, and adds to no other queue
C15_RunsAreIndependent ==
    /\ [](\A r \in RunIds :
            /\ \A r2 \in RunIds \ {r} : thread[r].q # 0 => thread[r].q # thread[r2].q
            /\ thread[r].pending # <<>> => ENABLED put(r)
            /\ thread[r].pc = "ready" => ENABLED run_pipeline_begin(r)
            /\ (thread[r].pc = "search" /\ thread[r].pending = <<>>)
                  => ENABLED search_returns(r, 0) /\ ENABLED search_fails(r))
    /\ [][\A q \in RunIds :
            written'[q] # written[q] =>
                \E r \in RunIds :
                    /\ thread[r].q = q
                    /\ thread[r].pending # <<>>
                    /\ written'[q] = Append(written[q], Head(thread[r].pending))
                    /\ thread'[r].pending = Tail(thread[r].pending)
                    /\ \A q2 \in RunIds \ {q} : written'[q2] = written[q2]]_vars

\* two runs writing at once: each has written some of its items and has more to put
C15_Witness ==
    \E r, r2 \in RunIds :
        /\ r # r2
        /\ thread[r].q # 0 /\ thread[r2].q # 0
        /\ written[thread[r].q] # <<>> /\ thread[r].pending # <<>>
        /\ written[thread[r2].q] # <<>> /\ thread[r2].pending # <<>>
        /\ written[thread[r].q][1].arg = JStr(thread[r].topic)

\* C16: a thread with a put to make can always make it, and every executor that
\* was started ends, with None as the last item written to its queue, whether or
\* not anything is ever read from that queue
C16_ExecutorTerminates ==
    /\ [](\A r \in RunIds : thread[r].pending # <<>> => ENABLED put(r))
    /\ \A r \in RunIds :
          thread[r].pc = "ready" ~>
              (Ended(r) /\ written[thread[r].q][Len(written[thread[r].q])] = None)

\* a run that ended with `done` while no /stream request was ever made: all it
\* wrote is still in its queue
C16_Witness ==
    \E r \in RunIds :
        /\ Ended(r)
        /\ \A c \in Consumers : consumer[c].pc = "idle"
        /\ Positions(written[thread[r].q], {"done"}) # {}
        /\ queues[thread[r].q] = written[thread[r].q]

\* C17: whatever the interleaving of start_run, stream and the generators, a
\* /stream request is waiting, or was answered 404, or has the queue of the run it
\* asked for, and never ends in any other way; and the run table holds, for each
\* run in it, one entry with that run's own queue
C17_AttachIsAtomic ==
    /\ \A c \in Consumers :
          /\ consumer[c].pc \in {"idle", "checked", "404", "streaming", "closed"}
          /\ consumer[c].pc \in {"streaming", "closed"} => consumer[c].q = consumer[c].run_id
    /\ \A e \in _runs : e[2] = e[1] /\ e[1] \in 1..issued
    /\ \A e, f \in _runs : e[1] = f[1] => e = f

\* the lines of a text as the event-stream transport delimits them: a line ends
\* at a newline, at a carriage return, or at a carriage return with a newline
RECURSIVE StreamLines(_, _, _, _)
StreamLines(text, i, line, lines) ==
    IF i > Len(text)
    THEN IF line = <<>> THEN lines ELSE Append(lines, line)
    ELSE IF text[i] = CARRIAGE_RETURN /\ i < Len(text) /\ text[i + 1] = NEWLINE
         THEN StreamLines(text, i + 2, <<>>, Append(lines, line))
         ELSE IF text[i] \in {NEWLINE, CARRIAGE_RETURN}
              THEN StreamLines(text, i + 1, <<>>, Append(lines, line))
              ELSE StreamLines(text, i + 1, line \o <<text[i]>>, lines)

\* C18: for every event kind and payload, the framed message is three lines on the
\* transport: the event line with the kind, one data line, and the empty line
\* that ends the event; no line break of the payload is left in the data line
C18_FrameIsThreeLines ==
    probe.pc = "framed" =>
        LET lines == StreamLines(probe.out, 1, <<>>, <<>>)
        IN  /\ Len(lines) = 3
            /\ lines[1] = <<"e", "v", "e", "n", "t", ":", " ">> \o EventChars(probe.stage)
            /\ startswith(lines[2], <<"d", "a", "t", "a", ":", " ">>)
            /\ lines[3] = <<>>

\* everything run r has put or is about to put on its queue, in order
Emitted(r) == written[thread[r].q] \o thread[r].pending

IsArticleLine(item) == item.label = "article"

\* the Data stage of run r has returned its articles: the Trend stage was announced
DataReturned(r) == \E i \in 1..Len(Emitted(r)) : Emitted(r)[i].stage = "Trend"

\* C19: after a search that returned n >= 1 hits, summaries are asked for one hit
\* after the other until min(n, 5) articles exist and no further; the i-th
\* article is built from the i-th hit, each article has its progress line, in
\* the same order, and the done report carries the same sequence of articles
C19_ArticlesFollowHits ==
    \A r \in RunIds :
        thread[r].raw_results >= 1 =>
            LET t == thread[r]
                k == IF t.raw_results < 5 THEN t.raw_results ELSE 5
                lines == SelectSeq(Emitted(r), IsArticleLine)
            IN  /\ Len(t.articles) <= k
                /\ t.pc = "summarise" => Len(t.articles) < k
                /\ DataReturned(r) => Len(t.articles) = k
                /\ \A i \in 1..Len(t.articles) :
                      t.articles[i] = Article(Hit(i), <<"s">>)
                /\ Len(lines) = Len(t.articles)
                /\ \A i \in 1..Len(lines) :
                      lines[i].idx = i /\ lines[i].arg = JStr(Hit(i).title)
                /\ \A i \in 1..Len(Emitted(r)) :
                      Emitted(r)[i].event = "done" =>
                          /\ py_get(Emitted(r)[i].arg, K_articles).val = JList(t.articles)
                          /\ Len(t.articles) = k

\* a run whose search returned more than five hits has put its done report
C19_Witness ==
    \E r \in RunIds :
        /\ thread[r].raw_results > 5
        /\ Len(thread[r].articles) = 5
        /\ \E i \in 1..Len(written[thread[r].q]) : written[thread[r].q][i].event = "done"

\* where the executor waits for the reasoning call of a stage
StagePc(stage) ==
    CASE stage = "Trend" -> "trend"
      [] stage = "Strategy" -> "strategy"
      [] stage = "Risk" -> "risk"

\* what the executor keeps of a stage's return
ResultOf(t, stage) ==
    CASE stage = "Trend" -> t.trends
      [] stage = "Strategy" -> t.strategy
      [] stage = "Risk" -> t.risks

\* the step in which the reasoning call of the stage returns content to run r
StageReturns(r, stage, content) ==
    \/ stage = "Trend" /\ trend_returns(r, content)
    \/ stage = "Strategy" /\ strategy_returns(r, content)
    \/ stage = "Risk" /\ risk_returns(r, content)

IsEntryLine(item) == item.label = "entry"

\* the stage returned the mapping m to the frame t2 and the run goes on
PassedThrough(stage, m, t2) ==
    LET i == IndexOf(m.k, PrimaryKey(stage))
        lines == SelectSeq(t2.pending, IsEntryLine)
    IN  /\ ResultOf(t2, stage) = m
        /\ i = 0 => lines = <<>>
        /\ (i # 0 /\ m.v[i].t = "list") =>
              /\ Len(lines) = Len(m.v[i].v)
              /\ \A j \in 1..Len(lines) :
                    /\ lines[j].stage = stage
                    /\ lines[j].idx = j
                    /\ lines[j].arg = m.v[i].v[j]
        /\ \A j \in 1..Len(t2.pending) : t2.pending[j].event # "error"
        /\ t2.pc = "finished" => \E j \in 1..Len(t2.pending) : t2.pending[j].event = "done"

\* C20: in the step in which the reasoning call of the Trend, Strategy or Risk
\* stage returns a text that decodes to a mapping, the executor keeps that very
\* mapping as the stage's result (no key added, the primary list as long as it
\* was), one progress line per entry of the primary list follows, in order and
\* no other, no error is put, and the run goes on to the next stage or to its
\* done report
C20_MappingPassesThrough ==
    [][\A r \in RunIds : \A stage \in Stages :
          (thread[r].pc = StagePc(stage) /\ thread[r].pending = <<>> /\ thread'[r] # thread[r]) =>
              \A content \in ContentsOf[stage][TRUE] :
                  LET p == _parse_json(_chat(content))
                  IN  (p.ok /\ p.val.t = "dict" /\ StageReturns(r, stage, content)) =>
                          PassedThrough(stage, p.val, thread'[r])]_vars

\* consumer c reads the end-of-stream marker of run r in this step
ReadsMarker(c, r) ==
    /\ consumer[c].pc = "streaming"
    /\ consumer[c].run_id = r
    /\ queues[consumer[c].q] # <<>>
    /\ Head(queues[consumer[c].q]) = None
    /\ consumer'[c].pc = "closed"
    /\ consumer'[c].read = Append(consumer[c].read, None)

\* C21: the entry of a run leaves the run table only in a step in which a consumer
\* attached to that run reads its None; no step of an executor (a put, a
\* collaborator's return or failure, the end of the run) and no other step
\* removes it, so the entry of a run whose marker no consumer reads stays
C21_OnlyMarkerReaderRemoves ==
    [][\A r \in RunIds :
          (Has(r) /\ ~(\E e \in _runs' : e[1] = r)) =>
              /\ \E c \in Consumers : ReadsMarker(c, r)
              /\ thread' = thread]_vars

\* one run has ended with nobody attached and is still in the table, while the
\* entry of another was removed by the consumer that read its marker
C21_Witness ==
    \E r, r2 \in RunIds :
        /\ Ended(r) /\ Has(r)
        /\ \A c \in Consumers : consumer[c].run_id # r
        /\ r2 \in 1..issued /\ ~Has(r2) /\ Reclaimed(r2)

=============================================================================
